---- MODULE Spec2Model ----
(***************************************************************************)
(* tcp-audit: an investigator that lists the TCP peers of a remote host    *)
(* (ss over ssh), correlates them with processes and lets the operator     *)
(* browse them.  The model follows src/index.ts (richer variant, lines     *)
(* 1-289; simpler variant, lines 317-567) and src/parser.ts.               *)
(*                                                                         *)
(* Text is modelled as text: command output is a string, lines are split   *)
(* on "\n", columns on whitespace, addresses at the last colon, and the    *)
(* regular expressions of the source are matched character by character.   *)
(***************************************************************************)
EXTENDS Integers, Sequences, FiniteSets, TLC

(***************************************************************************)
(* JavaScript string primitives (0-based indices, as in the source).       *)
(***************************************************************************)
Min(S) == CHOOSE x \in S : \A y \in S : x <= y

Max(S) == CHOOSE x \in S : \A y \in S : x >= y

CharAt(s, i) == SubSeq(s, i + 1, i + 1)

Substring(s, start, end) == SubSeq(s, start + 1, end)

SubstringFrom(s, start) == SubSeq(s, start + 1, Len(s))

Occurrences(s, sub) ==
    {i \in 0..(Len(s) - Len(sub)) : SubSeq(s, i + 1, i + Len(sub)) = sub}

Includes(s, sub) == Occurrences(s, sub) # {}

IndexOf(s, sub) == IF Includes(s, sub) THEN Min(Occurrences(s, sub)) ELSE -1

LastIndexOf(s, sub) == IF Includes(s, sub) THEN Max(Occurrences(s, sub)) ELSE -1

StartsWith(s, prefix) == SubSeq(s, 1, Len(prefix)) = prefix

IsSpace(c) == c \in {" ", "\t", "\n", "\r"}

IsDigit(c) == c \in {"0", "1", "2", "3", "4", "5", "6", "7", "8", "9"}

DigitValue(c) ==
    CASE c = "0" -> 0 [] c = "1" -> 1 [] c = "2" -> 2 [] c = "3" -> 3
      [] c = "4" -> 4 [] c = "5" -> 5 [] c = "6" -> 6 [] c = "7" -> 7
      [] c = "8" -> 8 [] c = "9" -> 9

\* String.prototype.trim
Trim(s) ==
    LET solid == {i \in 1..Len(s) : ~IsSpace(SubSeq(s, i, i))}
    IN  IF solid = {} THEN "" ELSE SubSeq(s, Min(solid), Max(solid))

\* s.split(/\s+/): the pieces between maximal runs of whitespace
RECURSIVE SplitWs(_)
SplitWs(s) ==
    LET ws == {i \in 1..Len(s) : IsSpace(SubSeq(s, i, i))}
    IN  IF ws = {} THEN <<s>>
        ELSE LET i == Min(ws)
                 later == {j \in i..Len(s) : ~IsSpace(SubSeq(s, j, j))}
             IN  IF later = {} THEN <<SubSeq(s, 1, i - 1), "">>
                 ELSE <<SubSeq(s, 1, i - 1)>>
                          \o SplitWs(SubSeq(s, Min(later), Len(s)))

\* s.split(sep) for a one-character separator
RECURSIVE SplitOn(_, _)
SplitOn(s, sep) ==
    IF ~Includes(s, sep) THEN <<s>>
    ELSE LET i == IndexOf(s, sep)
         IN  <<Substring(s, 0, i)>> \o SplitOn(SubstringFrom(s, i + 1), sep)

\* the longest run of digits at the start of s
RECURSIVE LeadingDigits(_)
LeadingDigits(s) ==
    IF s # "" /\ IsDigit(SubSeq(s, 1, 1))
    THEN SubSeq(s, 1, 1) \o LeadingDigits(SubSeq(s, 2, Len(s)))
    ELSE ""

RECURSIVE DecimalValue(_)
DecimalValue(d) ==
    IF d = "" THEN 0
    ELSE 10 * DecimalValue(SubSeq(d, 1, Len(d) - 1))
            + DigitValue(SubSeq(d, Len(d), Len(d)))

\* the value JavaScript calls NaN, kept apart from every number a listing can
\* hold (those are unsigned): nothing compares greater or less than it
NaN == 0 - 1

\* parseInt(s, 10) on the unsigned texts of a socket listing
ParseInt(s) ==
    LET d == LeadingDigits(Trim(s))
    IN  IF d = "" THEN NaN ELSE DecimalValue(d)

IsNaN(n) == n = NaN

\* a > b for JavaScript numbers
NumGreater(a, b) == a # NaN /\ b # NaN /\ a > b

NoMatch == "<no match>"

\* line.match(/<literal>(\d+)/): the digits captured by the leftmost match
MatchDigitsAfter(s, literal) ==
    LET hits == {i \in Occurrences(s, literal) :
                    LeadingDigits(SubstringFrom(s, i + Len(literal))) # ""}
    IN  IF hits = {} THEN NoMatch
        ELSE LeadingDigits(SubstringFrom(s, Min(hits) + Len(literal)))

\* s.match(/\("([^"]+)"/): the first quoted name that follows a parenthesis
MatchQuotedName(s) ==
    LET open == "(\""
        hits == {i \in Occurrences(s, open) :
                    LET rest == SubstringFrom(s, i + 2)
                    IN  IndexOf(rest, "\"") >= 1}
    IN  IF hits = {} THEN NoMatch
        ELSE LET rest == SubstringFrom(s, Min(hits) + 2)
             IN  Substring(rest, 0, IndexOf(rest, "\""))

(***************************************************************************)
(* A JavaScript Map<string, boolean> keeps its keys in insertion order;    *)
(* Array.from(map.entries()) lists them in that order.  It is modelled as  *)
(* the sequence of its entries.                                            *)
(***************************************************************************)
MapHas(m, k) == \E i \in 1..Len(m) : m[i].foreignAddress = k

MapGet(m, k) ==
    m[CHOOSE i \in 1..Len(m) : m[i].foreignAddress = k].isOutgoing

MapSet(m, k, v) ==
    IF MapHas(m, k)
    THEN [i \in 1..Len(m) |->
            IF m[i].foreignAddress = k
            THEN [foreignAddress |-> k, isOutgoing |-> v] ELSE m[i]]
    ELSE Append(m, [foreignAddress |-> k, isOutgoing |-> v])

(***************************************************************************)
(* parseForeignAddresses, src/index.ts 79-144                              *)
(***************************************************************************)
EphemeralThreshold == 32768

\* lines the loop skips before looking at the columns (85-88)
IsSkippedLine(line) ==
    \/ Trim(line) = ""
    \/ Includes(line, "Peer Address")
    \/ Includes(line, "State")
    \/ Includes(line, "TIME-WAIT")

\* the text after the last colon of a column, as a number (105-106)
PortOf(addrPort) ==
    ParseInt(SubstringFrom(addrPort, LastIndexOf(addrPort, ":") + 1))

\* the text before the last colon of a column (110-111)
AddressOf(addrPort) == Substring(addrPort, 0, LastIndexOf(addrPort, ":"))

\* localPort as lines 96-107 leave it
LocalPort(parts) ==
    IF Len(parts) >= 5 /\ Includes(parts[4], ":") THEN PortOf(parts[4]) ELSE 0

\* foreignAddress as lines 95-113 leave it
ForeignAddress(parts) ==
    IF Len(parts) >= 5 /\ Includes(parts[5], ":")
    THEN AddressOf(parts[5]) ELSE ""

\* a direction test that takes the threshold itself for ephemeral
IsOutgoingPort_AtLeast(localPort) ==
    localPort # NaN /\ localPort >= EphemeralThreshold

\* const isOutgoing = localPort > 32768 (121)
IsOutgoingPort(localPort) == NumGreater(localPort, EphemeralThreshold)

\* line.match(/0\.0\.0\.0:(\d+)/) || line.match(/\*:(\d+)/) (132)
ListenPortMatch(line) ==
    IF MatchDigitsAfter(line, "0.0.0.0:") # NoMatch
    THEN MatchDigitsAfter(line, "0.0.0.0:")
    ELSE MatchDigitsAfter(line, "*:")

\* a listening branch that stores the bare port, without the colon
ListenBranch_BarePort(map, line, foreignAddress) ==
    IF foreignAddress \in {"0.0.0.0", "*"} /\ Includes(line, "LISTEN")
          /\ ListenPortMatch(line) # NoMatch
    THEN MapSet(map, ListenPortMatch(line), TRUE)
    ELSE map

\* the else-if branch of lines 130-137
ListenBranch(map, line, foreignAddress) ==
    IF foreignAddress \in {"0.0.0.0", "*"} /\ Includes(line, "LISTEN")
          /\ ListenPortMatch(line) # NoMatch
    THEN MapSet(map, ":" \o ListenPortMatch(line), TRUE)
    ELSE map

\* the if branch of lines 119-129
AddressBranch(map, foreignAddress, localPort) ==
    IF MapHas(map, foreignAddress)
    THEN MapSet(map, foreignAddress,
                MapGet(map, foreignAddress) \/ IsOutgoingPort(localPort))
    ELSE MapSet(map, foreignAddress, IsOutgoingPort(localPort))

IsAddressKey(foreignAddress) ==
    /\ foreignAddress # ""
    /\ foreignAddress # "0.0.0.0"
    /\ foreignAddress # "*"
    /\ foreignAddress # "127.0.0.1"

\* one turn of the loop of lines 83-138
ParseLine(map, line) ==
    IF IsSkippedLine(line) THEN map
    ELSE LET parts == SplitWs(Trim(line))
             foreignAddress == ForeignAddress(parts)
         IN  IF foreignAddress = "[::]" THEN map
             ELSE IF IsAddressKey(foreignAddress)
             THEN AddressBranch(map, foreignAddress, LocalPort(parts))
             ELSE ListenBranch(map, line, foreignAddress)

RECURSIVE ParseLines(_, _)
ParseLines(map, lines) ==
    IF lines = <<>> THEN map
    ELSE ParseLines(ParseLine(map, Head(lines)), Tail(lines))

parseForeignAddresses(ssOutput) == ParseLines(<<>>, SplitOn(ssOutput, "\n"))

(***************************************************************************)
(* parseForeignAddresses of the simpler variant, src/index.ts 394-450: no  *)
(* "[::]" test and no listening branch.                                    *)
(***************************************************************************)
ParseLineSimple(map, line) ==
    IF IsSkippedLine(line) THEN map
    ELSE LET parts == SplitWs(Trim(line))
             foreignAddress == ForeignAddress(parts)
         IN  IF IsAddressKey(foreignAddress)
             THEN AddressBranch(map, foreignAddress, LocalPort(parts))
             ELSE map

RECURSIVE ParseLinesSimple(_, _)
ParseLinesSimple(map, lines) ==
    IF lines = <<>> THEN map
    ELSE ParseLinesSimple(ParseLineSimple(map, Head(lines)), Tail(lines))

parseForeignAddressesSimple(ssOutput) ==
    ParseLinesSimple(<<>>, SplitOn(ssOutput, "\n"))

(***************************************************************************)
(* sort(arr, key) of socket-function/src/misc as index.ts 186-187 uses it: *)
(* Array.prototype.sort under a comparison of the keys, which is stable.   *)
(* keys[i] is the key of arr[i].                                           *)
(***************************************************************************)
RECURSIVE SortedIndices(_, _)
SortedIndices(idxs, keys) ==
    IF idxs = <<>> THEN <<>>
    ELSE LET least == Min({keys[idxs[k]] : k \in 1..Len(idxs)})
         IN  SelectSeq(idxs, LAMBDA i : keys[i] = least)
                 \o SortedIndices(SelectSeq(idxs, LAMBDA i : keys[i] # least), keys)

sort(arr, keys) ==
    [k \in 1..Len(arr) |-> arr[SortedIndices([i \in 1..Len(arr) |-> i], keys)[k]]]

\* x => x.foreignAddress.startsWith(":") ? 0 : 1
ListenKeyFirst(c) == IF StartsWith(c.foreignAddress, ":") THEN 0 ELSE 1

\* x => x.isOutgoing ? 0 : 1
OutgoingFirst(c) == IF c.isOutgoing THEN 0 ELSE 1

\* lines 186-187
SortConnections(conns) ==
    LET byKind == sort(conns, [i \in 1..Len(conns) |-> ListenKeyFirst(conns[i])])
    IN  sort(byKind, [i \in 1..Len(byKind) |-> OutgoingFirst(byKind[i])])

\* line 517: the simpler variant sorts once
SortConnectionsSimple(conns) ==
    sort(conns, [i \in 1..Len(conns) |-> OutgoingFirst(conns[i])])

(***************************************************************************)
(* Process correlation, src/parser.ts                                      *)
(***************************************************************************)
\* parts.slice(from).join(' '), from counted from 0
RECURSIVE JoinFrom(_, _)
JoinFrom(parts, from) ==
    IF from >= Len(parts) THEN ""
    ELSE IF from = Len(parts) - 1 THEN parts[from + 1]
    ELSE parts[from + 1] \o " " \o JoinFrom(parts, from + 1)

\* lines both parsers of parser.ts skip (33, 152)
IsBlankOrHeader(line) ==
    \/ Trim(line) = ""
    \/ Includes(line, "Peer Address")
    \/ Includes(line, "State")

\* pid as lines 61-67 and 161-164 read it: 0 stands for no pid= in the text
PidOf(processInfo) ==
    IF MatchDigitsAfter(processInfo, "pid=") = NoMatch THEN 0
    ELSE ParseInt(MatchDigitsAfter(processInfo, "pid="))

\* processName as lines 62-72 and 168-169 read it
ProcessNameOf(processInfo) ==
    IF MatchQuotedName(processInfo) = NoMatch THEN "unknown"
    ELSE MatchQuotedName(processInfo)

\* a test that takes any address holding the target's text for the target
TargetMatches_Includes(foreignAddress, targetIp) ==
    Includes(foreignAddress, targetIp)

\* foreignAddress === targetIp (58)
TargetMatches(foreignAddress, targetIp) == foreignAddress = targetIp

\* the connection lines 41-82 push for one line, if any
ConnectionsOfLine(line, targetIp) ==
    IF IsBlankOrHeader(line) THEN <<>>
    ELSE LET parts == SplitWs(Trim(line))
         IN  IF /\ Len(parts) >= 5
                /\ Includes(parts[4], ":")
                /\ Includes(parts[5], ":")
                /\ TargetMatches(AddressOf(parts[5]), targetIp)
             THEN << [pid            |-> PidOf(JoinFrom(parts, 5)),
                      processName    |-> ProcessNameOf(JoinFrom(parts, 5)),
                      foreignAddress |-> AddressOf(parts[5]),
                      foreignPort    |-> PortOf(parts[5]),
                      localAddress   |-> AddressOf(parts[4]),
                      localPort      |-> PortOf(parts[4]),
                      state          |-> parts[1]] >>
             ELSE <<>>

RECURSIVE ConnectionsOfLines(_, _)
ConnectionsOfLines(lines, targetIp) ==
    IF lines = <<>> THEN <<>>
    ELSE ConnectionsOfLine(Head(lines), targetIp)
             \o ConnectionsOfLines(Tail(lines), targetIp)

\* parser.ts 27-89
parseConnectionsToTarget(ssOutput, targetIp) ==
    ConnectionsOfLines(SplitOn(ssOutput, "\n"), targetIp)

\* the separator of the arguments in /proc/<pid>/cmdline, the NUL character,
\* which a string of this notation cannot hold: a form feed stands for it
NUL == "\f"

NonEmpty(arg) == arg # ""

\* one turn of the loop of lines 104-117 on the Map<number, string[]>
CmdlineLine(pidMap, line) ==
    IF Trim(line) = "" THEN pidMap
    ELSE IF IndexOf(line, ":") = -1 THEN pidMap
    ELSE LET pid  == ParseInt(Substring(line, 0, IndexOf(line, ":")))
             args == SelectSeq(SplitOn(SubstringFrom(line, IndexOf(line, ":") + 1), NUL),
                               NonEmpty)
         IN  IF IsNaN(pid) THEN pidMap
             ELSE [p \in DOMAIN pidMap \cup {pid} |->
                      IF p = pid THEN args ELSE pidMap[p]]

RECURSIVE CmdlineLines(_, _)
CmdlineLines(pidMap, lines) ==
    IF lines = <<>> THEN pidMap
    ELSE CmdlineLines(CmdlineLine(pidMap, Head(lines)), Tail(lines))

EmptyMap == [p \in {} |-> <<>>]

\* parser.ts 101-119: the map built from the snapshot's text
ParseCmdlines(text) == CmdlineLines(EmptyMap, SplitOn(text, "\n"))

\* cmdlineMap.get(pid) || []
ArgsOf(cmdlines, pid) == IF pid \in DOMAIN cmdlines THEN cmdlines[pid] ELSE <<>>

HasPid(list, pid) == \E i \in 1..Len(list) : list[i].pid = pid

\* the callback of lines 151-177 on one line of the listening listing
ListenLineInfo(list, line, port, cmdlines) ==
    IF IsBlankOrHeader(line) THEN list
    ELSE IF ~(Includes(line, ":" \o port \o " ") \/ Includes(line, ":" \o port \o "\t"))
    THEN list
    ELSE LET parts       == SplitWs(Trim(line))
             processInfo == JoinFrom(parts, 4)
         IN  IF Len(parts) < 4 THEN list
             ELSE IF MatchDigitsAfter(processInfo, "pid=") = NoMatch THEN list
             ELSE IF HasPid(list, PidOf(processInfo)) THEN list
             ELSE Append(list, [pid         |-> PidOf(processInfo),
                                processName |-> ProcessNameOf(processInfo),
                                args        |-> ArgsOf(cmdlines, PidOf(processInfo))])

RECURSIVE ListenInfo(_, _, _, _)
ListenInfo(list, lines, port, cmdlines) ==
    IF lines = <<>> THEN list
    ELSE ListenInfo(ListenLineInfo(list, Head(lines), port, cmdlines),
                    Tail(lines), port, cmdlines)

\* [...new Set(connections.map(c => c.pid).filter(pid => pid > 0))] (181)
RECURSIVE UniquePids(_, _)
UniquePids(conns, seen) ==
    IF conns = <<>> THEN <<>>
    ELSE IF Head(conns).pid > 0 /\ Head(conns).pid \notin seen
    THEN <<Head(conns).pid>> \o UniquePids(Tail(conns), seen \cup {Head(conns).pid})
    ELSE UniquePids(Tail(conns), seen)

\* connections.find(c => c.pid === pid) (184)
FindByPid(conns, pid) ==
    conns[Min({i \in 1..Len(conns) : conns[i].pid = pid})]

\* lines 180-189
EstablishedInfo(text, address, cmdlines) ==
    LET conns == parseConnectionsToTarget(text, address)
        pids  == UniquePids(conns, {})
    IN  [k \in 1..Len(pids) |->
            [pid         |-> pids[k],
             processName |-> FindByPid(conns, pids[k]).processName,
             args        |-> ArgsOf(cmdlines, pids[k])]]

\* the callback of lines 142-191 for one address.  Its body has no await
\* before its last statement, so it has filled result[address] when
\* addresses.map moves on to the next address.
ProcessInfoFor(address, cmdlines, listenText, establishedText) ==
    IF StartsWith(address, ":")
    THEN ListenInfo(<<>>, SplitOn(listenText, "\n"), SubstringFrom(address, 1), cmdlines)
    ELSE EstablishedInfo(establishedText, address, cmdlines)

\* a fan-out that gives an address its key only once a process is found
RECURSIVE FanOutResult_OnlyFound(_, _, _, _, _)
FanOutResult_OnlyFound(res, addrs, cmdlines, listenText, establishedText) ==
    IF addrs = <<>> THEN res
    ELSE LET found == ProcessInfoFor(Head(addrs), cmdlines, listenText,
                                     establishedText)
         IN  FanOutResult_OnlyFound(
                 IF found = <<>> THEN res
                 ELSE [a \in DOMAIN res \cup {Head(addrs)} |->
                          IF a = Head(addrs) THEN found ELSE res[a]],
                 Tail(addrs), cmdlines, listenText, establishedText)

\* result[address] = ...: the object gains the key or has it overwritten
RECURSIVE FanOutResult(_, _, _, _, _)
FanOutResult(res, addrs, cmdlines, listenText, establishedText) ==
    IF addrs = <<>> THEN res
    ELSE FanOutResult(
             [a \in DOMAIN res \cup {Head(addrs)} |->
                 IF a = Head(addrs)
                 THEN ProcessInfoFor(a, cmdlines, listenText, establishedText)
                 ELSE res[a]],
             Tail(addrs), cmdlines, listenText, establishedText)

\* connections.map(c => c.foreignAddress) (index.ts 196)
AddressesOf(conns) == [i \in 1..Len(conns) |-> conns[i].foreignAddress]

(***************************************************************************)
(* State.                                                                  *)
(***************************************************************************)
VARIABLES
    pc,                \* where the program stands
    argc,              \* the positional arguments given (index.ts 11)
    ipinfoKey,         \* the token read at load, "" without the file (18-24)
    domains,           \* the hostnames main has still to resolve (165)
    exitCode,          \* <<>> while running, <<code>> once the process exited
    error,             \* what main() rejected with, "none" if it did not
    sshInFlight,       \* the remote commands started and not yet returned
    sshLog,            \* the remote commands in the order they were started
    result,            \* the text `ss -tan` returned (182)
    connections,       \* the connections array (185-187)
    connectionsSimple, \* the simpler variant's connections array (516-517)
    ipCalls,           \* the getIPInfo call made for each connection (191)
    ipInfoCache,       \* the address -> location cache (41)
    cacheWrites,       \* every ipInfoCache.set, in order
    cmdlineMap,        \* pid -> args (parser.ts 134)
    listenResult,      \* the text `sudo ss -tlnp` returned (parser.ts 137)
    establishedResult, \* the text `sudo ss -tanp` returned (parser.ts 139)
    processMap,        \* address -> ProcessInfo[] (index.ts 197)
    choices,           \* the entries of the picker (201-239)
    selectedIp,        \* response.selectedIp of the last selection (244)
    shown              \* the process list the Detail step printed (268-273)

textVars == <<result, connections, connectionsSimple>>

lookupVars == <<cmdlineMap, listenResult, establishedResult, processMap>>

cacheVars == <<ipCalls, ipInfoCache, cacheWrites>>

sshVars == <<sshInFlight, sshLog>>

loadVars == <<argc, ipinfoKey>>

exitVars == <<exitCode, error>>

loopVars == <<choices, selectedIp, shown>>

vars == <<pc, domains, loadVars, exitVars, sshVars, textVars, cacheVars,
          lookupVars, loopVars>>

NoSelection == "<undefined>"

NothingShown == <<"<nothing>">>

\* the state of every variable a specification does not move
AtRest ==
    /\ argc = 1
    /\ ipinfoKey = ""
    /\ domains = <<>>
    /\ exitCode = <<>>
    /\ error = "none"
    /\ sshInFlight = {}
    /\ sshLog = <<>>
    /\ ipCalls = <<>>
    /\ ipInfoCache = EmptyMap
    /\ cacheWrites = <<>>
    /\ choices = <<>>
    /\ selectedIp = NoSelection
    /\ shown = NothingShown

restVars == <<domains, loadVars, exitVars, sshVars, cacheVars, loopVars>>

(***************************************************************************)
(* Socket listings the parser is given: lines as `ss -tan` prints them,    *)
(* with the bracketed IPv6 form of current iproute2 and the bare form      *)
(* (`:::22`, `::ffff:1.2.3.4:443`) of older releases.                      *)
(***************************************************************************)
MaxLines == 2

SsTanLines ==
    { "State  Recv-Q Send-Q Local Address:Port Peer Address:Port",
      "LISTEN 0      128    0.0.0.0:22 0.0.0.0:*",
      "LISTEN 0 128 127.0.0.1:631 0.0.0.0:*",
      "LISTEN 0 128 [::]:22 [::]:*",
      "LISTEN 0 511 *:80 *:*",
      "LISTEN 0 128 :::22 :::*",
      "ESTAB 0 0 10.0.0.5:22 1.2.3.4:51234",
      "ESTAB 0 0 10.0.0.5:40000\t1.2.3.4:443",
      "ESTAB 0 0 10.0.0.5:32768 5.6.7.8:443",
      "ESTAB 0 0 127.0.0.1:5432 127.0.0.1:40002",
      "ESTAB 0 0 ::ffff:10.0.0.5:40000 ::ffff:1.2.3.4:443",
      "TIME-WAIT 0 0 10.0.0.5:40001 9.9.9.9:443",
      "ESTAB 0 0" }

\* the lines of a listing, each ended by a newline, as the remote prints them
RECURSIVE Unlines(_)
Unlines(lines) ==
    IF lines = <<>> THEN ""
    ELSE Head(lines) \o "\n" \o Unlines(Tail(lines))

SeqsUpTo(S, n) == UNION {[1..k -> S] : k \in 0..n}

Listings(lineSet, maxLines) == {Unlines(ls) : ls \in SeqsUpTo(lineSet, maxLines)}

(***************************************************************************)
(* ParseSpec: the parsers and the sorts applied to any listing.            *)
(***************************************************************************)
ParseInit ==
    /\ pc = "listing-text"
    /\ result \in Listings(SsTanLines, MaxLines)
    /\ connections = <<>>
    /\ connectionsSimple = <<>>
    /\ cmdlineMap = EmptyMap
    /\ listenResult = ""
    /\ establishedResult = ""
    /\ processMap = EmptyMap
    /\ AtRest

\* index.ts 185 and 516
ApplyParse ==
    /\ pc = "listing-text"
    /\ connections' = parseForeignAddresses(result)
    /\ connectionsSimple' = parseForeignAddressesSimple(result)
    /\ pc' = "parsed"
    /\ UNCHANGED <<result, lookupVars, restVars>>

\* index.ts 186-187 and 517
ApplySort ==
    /\ pc = "parsed"
    /\ connections' = SortConnections(connections)
    /\ connectionsSimple' = SortConnectionsSimple(connectionsSimple)
    /\ pc' = "sorted"
    /\ UNCHANGED <<result, lookupVars, restVars>>

ParseNext == ApplyParse \/ ApplySort

ParseSpec == ParseInit /\ [][ParseNext]_vars

(***************************************************************************)
(* What a listing says, read off its lines column by column.               *)
(***************************************************************************)
LinesOf(text) == {SplitOn(text, "\n")[i] : i \in 1..Len(SplitOn(text, "\n"))}

Columns(line) == SplitWs(Trim(line))

IsHeader(line) == Includes(line, "State") \/ Includes(line, "Peer Address")

\* a connection line: five columns, an address:port in the fourth and fifth
WellFormed(line) ==
    /\ Trim(line) # ""
    /\ ~IsHeader(line)
    /\ Len(Columns(line)) >= 5
    /\ Includes(Columns(line)[4], ":")
    /\ Includes(Columns(line)[5], ":")

StateOf(line) == Columns(line)[1]

PeerOf(line) == AddressOf(Columns(line)[5])

LocalAddressOf(line) == AddressOf(Columns(line)[4])

LocalPortTextOf(line) ==
    SubstringFrom(Columns(line)[4], LastIndexOf(Columns(line)[4], ":") + 1)

LocalPortOf(line) == PortOf(Columns(line)[4])

EndsWith(s, suffix) ==
    Len(s) >= Len(suffix) /\ SubSeq(s, Len(s) - Len(suffix) + 1, Len(s)) = suffix

AllDigits(s) == s # "" /\ LeadingDigits(s) = s

Wildcards == {"0.0.0.0", "*", "127.0.0.1", "[::]"}

\* the well-formed lines that are not in TIME-WAIT
CountedLines(text) ==
    {l \in LinesOf(text) : WellFormed(l) /\ StateOf(l) # "TIME-WAIT"}

\* the lines that speak of address a
Contributing(text, a) == {l \in CountedLines(text) : PeerOf(l) = a}

\* a key of the form :PORT
IsPortKey(k) == StartsWith(k, ":") /\ AllDigits(SubstringFrom(k, 1))

EntriesFor(s, k) == {i \in 1..Len(s) : s[i].foreignAddress = k}

Parsed == pc \in {"parsed", "sorted"}

(***************************************************************************)
(* C3.  After the two sorts every :PORT key stands before every regular    *)
(* outgoing address, and every regular outgoing address before every       *)
(* regular incoming one.                                                   *)
(***************************************************************************)
Rank(c) ==
    IF IsPortKey(c.foreignAddress) THEN 0 ELSE IF c.isOutgoing THEN 1 ELSE 2

C3_ListingOrder ==
    pc = "sorted" =>
        \A i, j \in 1..Len(connections) :
            i < j => Rank(connections[i]) <= Rank(connections[j])

(***************************************************************************)
(* C4.  As claimed: every LISTEN line with local port P and foreign        *)
(* address 0.0.0.0, * or [::] yields the key :P, once, flagged as not      *)
(* outgoing, and no line has :P for its foreign address.                   *)
(***************************************************************************)
ListenLines(text) ==
    {l \in CountedLines(text) :
        StateOf(l) = "LISTEN" /\ PeerOf(l) \in {"0.0.0.0", "*", "[::]"}}

C4_EveryWildcardListen ==
    Parsed =>
        \A l \in ListenLines(result) :
            LET key == ":" \o LocalPortTextOf(l)
            IN  /\ Cardinality(EntriesFor(connections, key)) = 1
                /\ \A i \in EntriesFor(connections, key) : ~connections[i].isOutgoing
                /\ Contributing(result, key) = {}

(***************************************************************************)
(* C4 as the code has it.  A LISTEN line whose foreign address is 0.0.0.0  *)
(* or * and whose local column reads ...0.0.0.0:P or ...*:P yields the key *)
(* :P, once, stored with isOutgoing = TRUE; these are the only :PORT keys  *)
(* of the connections (a [::] line, or a listener bound to another local       *)
(* address, yields none) and no line has such a key for foreign address.   *)
(***************************************************************************)
WildcardListenLines(text) ==
    {l \in CountedLines(text) :
        /\ StateOf(l) = "LISTEN"
        /\ PeerOf(l) \in {"0.0.0.0", "*"}
        /\ EndsWith(LocalAddressOf(l), "0.0.0.0") \/ EndsWith(LocalAddressOf(l), "*")
        /\ AllDigits(LocalPortTextOf(l))}

C4_ListenKeys ==
    Parsed =>
        /\ \A l \in WildcardListenLines(result) :
               LET key == ":" \o LocalPortTextOf(l)
               IN  /\ Cardinality(EntriesFor(connections, key)) = 1
                   /\ \A i \in EntriesFor(connections, key) : connections[i].isOutgoing
        /\ \A i \in 1..Len(connections) :
               IsPortKey(connections[i].foreignAddress) =>
                   /\ \E l \in WildcardListenLines(result) :
                          connections[i].foreignAddress = ":" \o LocalPortTextOf(l)
                   /\ Contributing(result, connections[i].foreignAddress) = {}

\* a wildcard listener, an IPv6 wildcard listener and a peer, parsed
C4_Witness ==
    /\ pc = "parsed"
    /\ WildcardListenLines(result) # {}
    /\ \E i \in 1..Len(connections) : IsPortKey(connections[i].foreignAddress)
    /\ \E l \in ListenLines(result) : l \notin WildcardListenLines(result)

(***************************************************************************)
(* C5.  Every foreign address of a well-formed line not in TIME-WAIT that  *)
(* is none of 0.0.0.0, *, 127.0.0.1, [::] is in the connections exactly once,  *)
(* and none of those four is a key: of either variant's parser.            *)
(***************************************************************************)
UniqueAddresses(text, s) ==
    /\ \A l \in CountedLines(text) :
           PeerOf(l) \notin Wildcards =>
               Cardinality(EntriesFor(s, PeerOf(l))) = 1
    /\ \A i \in 1..Len(s) : s[i].foreignAddress \notin Wildcards

C5_UniqueAddresses ==
    Parsed => UniqueAddresses(result, connections)
                  /\ UniqueAddresses(result, connectionsSimple)

(***************************************************************************)
(* C6.  A real address is flagged outgoing exactly when one of its lines   *)
(* has a local port above 32768, whatever the order of the lines.          *)
(***************************************************************************)
C6_OutgoingIffAnyEphemeral ==
    Parsed =>
        \A i \in 1..Len(connections) :
            LET lines == Contributing(result, connections[i].foreignAddress)
            IN  lines # {} =>
                    (connections[i].isOutgoing
                        <=> \E l \in lines : LocalPortOf(l) > EphemeralThreshold)

\* an address with an ephemeral and a service local port, flagged outgoing
C6_Witness ==
    /\ pc = "parsed"
    /\ \E i \in 1..Len(connections) :
           LET lines == Contributing(result, connections[i].foreignAddress)
           IN  /\ \E l \in lines : LocalPortOf(l) > EphemeralThreshold
               /\ \E l \in lines : LocalPortOf(l) <= EphemeralThreshold
               /\ connections[i].isOutgoing

(***************************************************************************)
(* The remote host as the process lookup sees it: the annotated lines of   *)
(* its sockets.  `sudo ss -tanp` prints them all under a header and        *)
(* `sudo ss -tlnp` the listening ones.                                     *)
(***************************************************************************)
MaxProcLines == 2

MaxAddresses == 1

ProcHeader == "State Recv-Q Send-Q Local Address:Port Peer Address:Port Process"

ProcLines ==
    { "LISTEN 0 128 0.0.0.0:22 0.0.0.0:* users:((\"sshd\",pid=900,fd=3))",
      "LISTEN 0 128 [::]:22 [::]:* users:((\"sshd\",pid=900,fd=4))",
      "LISTEN 0 511 0.0.0.0:80 0.0.0.0:* users:((\"nginx\",pid=10,fd=6),(\"nginx\",pid=11,fd=6))",
      "ESTAB 0 0 10.0.0.5:22 1.2.3.4:51234 users:((\"sshd\",pid=1234,fd=3))",
      "ESTAB 0 0 10.0.0.5:22 1.2.3.4:51235 users:((\"sshd\",pid=1234,fd=4))",
      "ESTAB 0 0 10.0.0.5:40000 1.2.3.4:443",
      "ESTAB 0 0 10.0.0.5:40001 11.2.3.4:443 users:((\"curl\",pid=88,fd=5))" }

ProcAddresses == {"1.2.3.4", "11.2.3.4", ":22", ":80"}

IsListenLine(line) == StartsWith(line, "LISTEN")

TanpText(sockets) == Unlines(<<ProcHeader>> \o sockets)

TlnpText(sockets) == Unlines(<<ProcHeader>> \o SelectSeq(sockets, IsListenLine))

\* the snapshot of /proc/*/cmdline, one "pid:args" line per process
CmdlineSnapshot ==
    "1:/sbin/init\n900:/usr/sbin/sshd\f-D\f\n1234:sshd: root@pts/0\f\f\n"
        \o "10:nginx: master process\f\nself:\n88:curl\f-s\fhttps://11.2.3.4/\f\n"
        \o "77:/usr/bin/node\fserver.ts\f\n"

\* lists of distinct addresses, as the keys of a Map are
AddressLists(S, n) ==
    {as \in SeqsUpTo(S, n) : \A i, j \in 1..Len(as) : as[i] = as[j] => i = j}

(***************************************************************************)
(* The fan-out of getAllProcessInfo, parser.ts 142-193.                    *)
(***************************************************************************)
\* a fan-out that asks the remote about each address, all at once
FanOut_PerAddress ==
    /\ pc = "fan-out"
    /\ processMap' = FanOutResult(EmptyMap, AddressesOf(connections), cmdlineMap,
                                  listenResult, establishedResult)
    /\ sshInFlight' = {"sudo ss -tanp dst " \o connections[i].foreignAddress :
                          i \in 1..Len(connections)}
    /\ sshLog' = sshLog \o [i \in 1..Len(connections) |->
                               "sudo ss -tanp dst " \o connections[i].foreignAddress]
    /\ pc' = "choices"
    /\ UNCHANGED <<domains, loadVars, exitVars, textVars, cacheVars, loopVars,
                   cmdlineMap, listenResult, establishedResult>>

FanOut ==
    /\ pc = "fan-out"
    /\ processMap' = FanOutResult(EmptyMap, AddressesOf(connections), cmdlineMap,
                                  listenResult, establishedResult)
    /\ pc' = "choices"
    /\ UNCHANGED <<domains, loadVars, exitVars, sshVars, textVars, cacheVars,
                   loopVars, cmdlineMap, listenResult, establishedResult>>

(***************************************************************************)
(* LookupSpec: the fan-out applied to any addresses and any sockets.       *)
(***************************************************************************)
LookupInit ==
    /\ pc = "fan-out"
    /\ result = ""
    /\ \E as \in AddressLists(ProcAddresses, MaxAddresses) :
           connections = [i \in 1..Len(as) |->
                             [foreignAddress |-> as[i], isOutgoing |-> TRUE]]
    /\ connectionsSimple = <<>>
    /\ cmdlineMap = ParseCmdlines(CmdlineSnapshot)
    /\ \E sockets \in SeqsUpTo(ProcLines, MaxProcLines) :
           /\ listenResult = TlnpText(sockets)
           /\ establishedResult = TanpText(sockets)
    /\ processMap = EmptyMap
    /\ AtRest

LookupNext == FanOut

LookupSpec == LookupInit /\ [][LookupNext]_vars

(***************************************************************************)
(* C10.  Every process list holds a pid at most once and never pid 0, and  *)
(* the list of a real address holds only pids of lines whose foreign       *)
(* address is that address.                                                *)
(***************************************************************************)
LinesTo(text, a) == {l \in LinesOf(text) : WellFormed(l) /\ PeerOf(l) = a}

C10_ProcessLists ==
    pc = "choices" =>
        \A a \in DOMAIN processMap :
            LET list == processMap[a]
            IN  /\ \A i, j \in 1..Len(list) : list[i].pid = list[j].pid => i = j
                /\ \A i \in 1..Len(list) : list[i].pid # 0
                /\ ~IsPortKey(a) =>
                       \A i \in 1..Len(list) :
                           \E l \in LinesTo(establishedResult, a) :
                               PidOf(l) = list[i].pid

\* a real address with more lines than processes: a pid met twice, or a line
\* without one
C10_Witness ==
    /\ pc = "choices"
    /\ \E a \in DOMAIN processMap :
           /\ ~IsPortKey(a)
           /\ Len(processMap[a]) >= 1
           /\ Cardinality(LinesTo(establishedResult, a)) > Len(processMap[a])

(***************************************************************************)
(* Spec: one run of the investigator, index.ts 11-24 and 146-289.          *)
(***************************************************************************)
DemandedCommands == 1

MaxArgs == 2

Domains == <<"h1.planquickly.com", "h2.planquickly.com", "s.planquickly.com">>

SsTan == "ss -tan"

ProcCmdlines == "find /proc -maxdepth 2 -name cmdline"

SsTlnp == "sudo ss -tlnp"

SsTanp == "sudo ss -tanp"

\* what the remote can answer to `ss -tan`
RunListings ==
    { Unlines(<< "State  Recv-Q Send-Q Local Address:Port Peer Address:Port",
                 "LISTEN 0      128    0.0.0.0:22 0.0.0.0:*",
                 "ESTAB 0 0 10.0.0.5:22 1.2.3.4:51234",
                 "ESTAB 0 0 10.0.0.5:40000\t1.2.3.4:443",
                 "ESTAB 0 0 10.0.0.5:32768 5.6.7.8:443" >>),
      Unlines(<< "State  Recv-Q Send-Q Local Address:Port Peer Address:Port" >>),
      Unlines(<< "LISTEN 0 128 :::22 :::*",
                 "ESTAB 0 0 ::ffff:10.0.0.5:40000 ::ffff:1.2.3.4:443",
                 "ESTAB 0 0 10.0.0.5:40001 11.2.3.4:443" >>) }

\* the sockets behind the answers to `sudo ss -tlnp` and `sudo ss -tanp`
RunSockets ==
    << "LISTEN 0 128 0.0.0.0:22 0.0.0.0:* users:((\"sshd\",pid=900,fd=3))",
       "LISTEN 0 128 [::]:22 [::]:* users:((\"sshd\",pid=900,fd=4))",
       "ESTAB 0 0 10.0.0.5:22 1.2.3.4:51234 users:((\"sshd\",pid=1234,fd=3))",
       "ESTAB 0 0 10.0.0.5:40000 1.2.3.4:443",
       "ESTAB 0 0 ::ffff:10.0.0.5:40000 ::ffff:1.2.3.4:443 users:((\"node\",pid=77,fd=9))",
       "ESTAB 0 0 10.0.0.5:40001 11.2.3.4:443 users:((\"curl\",pid=88,fd=5))" >>

\* what https://ipinfo.io can answer: fetch or response.json() throws, a
\* response that is not ok, or a record with or without city and country
FetchOutcomes ==
    { [kind |-> "throw",  country |-> "",   city |-> ""],
      [kind |-> "not-ok", country |-> "",   city |-> ""],
      [kind |-> "ok",     country |-> "US", city |-> "Ashburn"],
      [kind |-> "ok",     country |-> "US", city |-> ""],
      [kind |-> "ok",     country |-> "",   city |-> "Ashburn"] }

Init ==
    /\ pc = "load"
    /\ argc \in 0..MaxArgs
    /\ ipinfoKey \in {"", "token"}
    /\ domains = Domains
    /\ exitCode = <<>>
    /\ error = "none"
    /\ sshInFlight = {}
    /\ sshLog = <<>>
    /\ result = ""
    /\ connections = <<>>
    /\ connectionsSimple = <<>>
    /\ ipCalls = <<>>
    /\ ipInfoCache = EmptyMap
    /\ cacheWrites = <<>>
    /\ cmdlineMap = EmptyMap
    /\ listenResult = ""
    /\ establishedResult = ""
    /\ processMap = EmptyMap
    /\ choices = <<>>
    /\ selectedIp = NoSelection
    /\ shown = NothingShown

\* process.exit(code)
Exit(code) == pc' = "exited" /\ exitCode' = <<code>>

\* runPromise(`ssh ${remote} "..."`) is called
Start(cmd) == sshInFlight' = sshInFlight \cup {cmd} /\ sshLog' = Append(sshLog, cmd)

\* the command returned or failed, and the code that awaited it starts next
Then(cmd, next) ==
    /\ sshInFlight' = (sshInFlight \ {cmd}) \cup {next}
    /\ sshLog' = Append(sshLog, next)

Finish(cmd) == sshInFlight' = sshInFlight \ {cmd} /\ UNCHANGED sshLog

\* index.ts 11-24 and 289: yargs checks the arguments and ends the process
\* with code 1 when the remote is missing; otherwise the module reads the
\* token and calls main(), which asks for the first hostname
Load ==
    /\ pc = "load"
    /\ IF argc < DemandedCommands
       THEN Exit(1) /\ error' = "usage"
       ELSE pc' = "dns" /\ UNCHANGED exitVars
    /\ UNCHANGED <<domains, loadVars, sshVars, textVars, cacheVars, lookupVars,
                   loopVars>>

\* 165-171 and 182: a hostname resolved; after the last one main starts
\* `ss -tan`
Resolved ==
    /\ pc = "dns"
    /\ domains' = Tail(domains)
    /\ IF Tail(domains) = <<>>
       THEN pc' = "ss-tan" /\ Start(SsTan)
       ELSE pc' = "dns" /\ UNCHANGED sshVars
    /\ UNCHANGED <<loadVars, exitVars, textVars, cacheVars, lookupVars, loopVars>>

\* 166: resolve4 rejects, and so does main
ResolveFailed ==
    /\ pc = "dns"
    /\ pc' = "rejected"
    /\ error' = "dns"
    /\ UNCHANGED <<domains, loadVars, exitCode, sshVars, textVars, cacheVars,
                   lookupVars, loopVars>>

\* what the promise of a call holds while its fetch is in flight
Pending == "<pending>"

\* getIPInfo up to its first await (43-54), for the call made for entry c
\* while the cache reads `cache`
CallStarted(c, cache) ==
    [ip     |-> c.foreignAddress,
     status |-> IF StartsWith(c.foreignAddress, ":") THEN "returned"
                ELSE IF ipinfoKey = "" THEN "returned"
                ELSE IF c.foreignAddress \in DOMAIN cache THEN "returned"
                ELSE "fetching",
     value  |-> IF StartsWith(c.foreignAddress, ":") THEN ""
                ELSE IF ipinfoKey = "" THEN ""
                ELSE IF c.foreignAddress \in DOMAIN cache THEN cache[c.foreignAddress]
                ELSE Pending]

\* 182-197: `ss -tan` returned.  main parses and sorts; with a token it
\* calls getIPInfo for every connection at once and awaits them all,
\* without one it goes on to getAllProcessInfo, which starts the snapshot
SsTanReturned ==
    /\ pc = "ss-tan"
    /\ \E text \in RunListings :
           /\ result' = text
           /\ connections' = SortConnections(parseForeignAddresses(text))
    /\ IF ipinfoKey # ""
       THEN /\ ipCalls' = [i \in 1..Len(connections') |->
                              CallStarted(connections'[i], ipInfoCache)]
            /\ pc' = "enrich"
            /\ Finish(SsTan)
       ELSE /\ ipCalls' = <<>>
            /\ pc' = "cmdlines"
            /\ Then(SsTan, ProcCmdlines)
    /\ UNCHANGED <<domains, loadVars, exitVars, connectionsSimple, ipInfoCache,
                   cacheWrites, lookupVars, loopVars>>

\* 182: `ss -tan` failed; nothing catches it and main rejects
SsTanFailed ==
    /\ pc = "ss-tan"
    /\ Finish(SsTan)
    /\ pc' = "rejected"
    /\ error' = SsTan
    /\ UNCHANGED <<domains, loadVars, exitCode, textVars, cacheVars, lookupVars,
                   loopVars>>

\* 61-66
Location(data) ==
    IF data.city # "" /\ data.country # ""
    THEN data.country \o " (" \o data.city \o ")"
    ELSE IF data.country # "" THEN data.country
    ELSE ""

\* ipInfoCache.set(ip, location)
CacheSet(cache, ip, location) ==
    [a \in DOMAIN cache \cup {ip} |-> IF a = ip THEN location ELSE cache[a]]

\* a lookup that leaves the cache alone when it fails
Settled_NoNegativeCache(call, outcome, cache) ==
    IF outcome.kind = "ok"
    THEN [call  |-> [call EXCEPT !.status = "ok", !.value = Location(outcome)],
          cache |-> CacheSet(cache, call.ip, Location(outcome)),
          wrote |-> <<[ip |-> call.ip, location |-> Location(outcome)]>>]
    ELSE [call  |-> [call EXCEPT !.status = "failed", !.value = ""],
          cache |-> cache,
          wrote |-> <<>>]

\* a lookup without the catch of lines 70-73: what fetch or response.json()
\* throws leaves the call rejected
Settled_Uncaught(call, outcome, cache) ==
    IF outcome.kind = "ok"
    THEN [call  |-> [call EXCEPT !.status = "ok", !.value = Location(outcome)],
          cache |-> CacheSet(cache, call.ip, Location(outcome)),
          wrote |-> <<[ip |-> call.ip, location |-> Location(outcome)]>>]
    ELSE IF outcome.kind = "throw"
    THEN [call  |-> [call EXCEPT !.status = "rejected"],
          cache |-> cache,
          wrote |-> <<>>]
    ELSE [call  |-> [call EXCEPT !.status = "failed", !.value = ""],
          cache |-> CacheSet(cache, call.ip, ""),
          wrote |-> <<[ip |-> call.ip, location |-> ""]>>]

\* 54-73: what getIPInfo does with the answer to its fetch
Settled(call, outcome, cache) ==
    IF outcome.kind = "ok"
    THEN [call  |-> [call EXCEPT !.status = "ok", !.value = Location(outcome)],
          cache |-> CacheSet(cache, call.ip, Location(outcome)),
          wrote |-> <<[ip |-> call.ip, location |-> Location(outcome)]>>]
    ELSE [call  |-> [call EXCEPT !.status = "failed", !.value = ""],
          cache |-> CacheSet(cache, call.ip, ""),
          wrote |-> <<[ip |-> call.ip, location |-> ""]>>]

\* one of the fetches in flight is answered, in any order
FetchSettled ==
    /\ pc = "enrich"
    /\ \E i \in 1..Len(ipCalls), outcome \in FetchOutcomes :
           /\ ipCalls[i].status = "fetching"
           /\ LET after == Settled(ipCalls[i], outcome, ipInfoCache)
              IN  /\ ipCalls' = [ipCalls EXCEPT ![i] = after.call]
                  /\ ipInfoCache' = after.cache
                  /\ cacheWrites' = cacheWrites \o after.wrote
    /\ UNCHANGED <<pc, domains, loadVars, exitVars, sshVars, textVars, lookupVars,
                   loopVars>>

\* 191-197 and parser.ts 134: every getIPInfo has returned, Promise.all
\* resolves and getAllProcessInfo starts the snapshot of the command lines
Enriched ==
    /\ pc = "enrich"
    /\ \A i \in 1..Len(ipCalls) : ipCalls[i].status # "fetching"
    /\ pc' = "cmdlines"
    /\ Start(ProcCmdlines)
    /\ UNCHANGED <<domains, loadVars, exitVars, textVars, cacheVars, lookupVars,
                   loopVars>>

\* parser.ts 99-119 and 137: the snapshot returned, `sudo ss -tlnp` starts
CmdlinesReturned ==
    /\ pc = "cmdlines"
    /\ cmdlineMap' = ParseCmdlines(CmdlineSnapshot)
    /\ pc' = "tlnp"
    /\ Then(ProcCmdlines, SsTlnp)
    /\ UNCHANGED <<domains, loadVars, exitVars, textVars, cacheVars, loopVars,
                   listenResult, establishedResult, processMap>>

\* parser.ts 120-123 and 137: the snapshot failed, getAllCmdlines returns an
\* empty map and `sudo ss -tlnp` starts
CmdlinesFailed ==
    /\ pc = "cmdlines"
    /\ cmdlineMap' = EmptyMap
    /\ pc' = "tlnp"
    /\ Then(ProcCmdlines, SsTlnp)
    /\ UNCHANGED <<domains, loadVars, exitVars, textVars, cacheVars, loopVars,
                   listenResult, establishedResult, processMap>>

\* parser.ts 137-139: the listening sockets returned, `sudo ss -tanp` starts
ListenReturned ==
    /\ pc = "tlnp"
    /\ listenResult' = TlnpText(RunSockets)
    /\ pc' = "tanp"
    /\ Then(SsTlnp, SsTanp)
    /\ UNCHANGED <<domains, loadVars, exitVars, textVars, cacheVars, loopVars,
                   cmdlineMap, establishedResult, processMap>>

\* parser.ts 137: `sudo ss -tlnp` failed; getAllProcessInfo rejects, and main
ListenFailed ==
    /\ pc = "tlnp"
    /\ Finish(SsTlnp)
    /\ pc' = "rejected"
    /\ error' = SsTlnp
    /\ UNCHANGED <<domains, loadVars, exitCode, textVars, cacheVars, lookupVars,
                   loopVars>>

\* parser.ts 139-142: the annotated sockets returned, the fan-out is next
EstablishedReturned ==
    /\ pc = "tanp"
    /\ establishedResult' = TanpText(RunSockets)
    /\ pc' = "fan-out"
    /\ Finish(SsTanp)
    /\ UNCHANGED <<domains, loadVars, exitVars, textVars, cacheVars, loopVars,
                   cmdlineMap, listenResult, processMap>>

\* parser.ts 139: `sudo ss -tanp` failed; getAllProcessInfo rejects, and main
EstablishedFailed ==
    /\ pc = "tanp"
    /\ Finish(SsTanp)
    /\ pc' = "rejected"
    /\ error' = SsTanp
    /\ UNCHANGED <<domains, loadVars, exitCode, textVars, cacheVars, lookupVars,
                   loopVars>>

\* 202-205
Direction(conn) ==
    IF StartsWith(conn.foreignAddress, ":") THEN "LISTEN"
    ELSE IF conn.isOutgoing THEN "OUT" ELSE "IN"

\* ipInfoCache.get(addr) || "" (207)
CachedLocation(cache, addr) == IF addr \in DOMAIN cache THEN cache[addr] ELSE ""

\* processMap[addr] || [] (211)
ProcessesOf(map, addr) == IF addr \in DOMAIN map THEN map[addr] ELSE <<>>

\* 201-244: the choices are built and the first selection prompt is shown
BuildChoices ==
    /\ pc = "choices"
    /\ choices' = [i \in 1..Len(connections) |->
                      [index     |-> i,
                       direction |-> Direction(connections[i]),
                       value     |-> connections[i].foreignAddress,
                       location  |-> CachedLocation(ipInfoCache,
                                                    connections[i].foreignAddress),
                       processes |-> Len(ProcessesOf(processMap,
                                                     connections[i].foreignAddress))]]
    /\ pc' = "Listing"
    /\ UNCHANGED <<domains, loadVars, exitVars, sshVars, textVars, cacheVars,
                   lookupVars, selectedIp, shown>>

\* what the autocomplete prompt can resolve to: the value of a choice, or
\* undefined when no choice matches what was typed (or there is none)
Selectable == {choices[i].value : i \in 1..Len(choices)} \cup {NoSelection}

\* 244-276: the selection prompt resolved.  A selected entry's processes are
\* printed (for..of over a missing entry throws); then the acknowledgment
\* prompt is shown, whether or not anything was selected
Select ==
    /\ pc = "Listing"
    /\ \E v \in Selectable :
           /\ selectedIp' = v
           /\ IF v # NoSelection /\ v \notin DOMAIN processMap
              THEN pc' = "rejected" /\ error' = "TypeError" /\ UNCHANGED shown
              ELSE /\ pc' = "Detail"
                   /\ shown' = IF v = NoSelection THEN NothingShown ELSE processMap[v]
                   /\ UNCHANGED error
    /\ UNCHANGED <<domains, loadVars, exitCode, sshVars, textVars, cacheVars,
                   lookupVars, choices>>

\* a loop that ends after one Detail view: main returns
Acknowledge_SingleShot ==
    /\ pc = "Detail"
    /\ pc' = "resolved"
    /\ UNCHANGED <<domains, loadVars, exitVars, sshVars, textVars, cacheVars,
                   lookupVars, loopVars>>

\* a loop that takes a new listing from the remote after every Detail view
Acknowledge_Refresh ==
    /\ pc = "Detail"
    /\ pc' = "ss-tan"
    /\ Start(SsTan)
    /\ UNCHANGED <<domains, loadVars, exitVars, textVars, cacheVars, lookupVars,
                   loopVars>>

\* 276-286 and 241-244: enter was pressed; the loop shows the selection
\* prompt again
Acknowledge ==
    /\ pc = "Detail"
    /\ pc' = "Listing"
    /\ UNCHANGED <<domains, loadVars, exitVars, sshVars, textVars, cacheVars,
                   lookupVars, loopVars>>

\* 260-263 and 281-284: onCancel of either prompt
Cancel ==
    /\ pc \in {"Listing", "Detail"}
    /\ Exit(0)
    /\ UNCHANGED <<domains, loadVars, error, sshVars, textVars, cacheVars,
                   lookupVars, loopVars>>

\* 289: main().catch(console.error).finally(() => process.exit()): the error
\* is printed and the process exits with the default code, 0
Rejected ==
    /\ pc = "rejected"
    /\ Exit(0)
    /\ UNCHANGED <<domains, loadVars, error, sshVars, textVars, cacheVars,
                   lookupVars, loopVars>>

Next ==
    \/ Load
    \/ Resolved
    \/ ResolveFailed
    \/ SsTanReturned
    \/ SsTanFailed
    \/ FetchSettled
    \/ Enriched
    \/ CmdlinesReturned
    \/ CmdlinesFailed
    \/ ListenReturned
    \/ ListenFailed
    \/ EstablishedReturned
    \/ EstablishedFailed
    \/ FanOut
    \/ BuildChoices
    \/ Select
    \/ Acknowledge
    \/ Cancel
    \/ Rejected

Spec == Init /\ [][Next]_vars

(***************************************************************************)
(* C1.  The process exits with code 0 when a prompt is cancelled and with  *)
(* another code when the arguments are refused or a remote command that    *)
(* nothing catches has failed.                                             *)
(***************************************************************************)
RemoteCommands == {SsTan, ProcCmdlines, SsTlnp, SsTanp}

C1_ExitCodes ==
    pc = "exited" =>
        /\ error = "none" => exitCode = <<0>>
        /\ error \in {"usage"} \cup RemoteCommands => exitCode # <<0>>

(***************************************************************************)
(* C2.  As claimed: in the loop, Listing is left for Detail only with an   *)
(* entry selected, Detail is left for Listing, and either is left for the  *)
(* exit with code 0; nothing else happens.                                 *)
(***************************************************************************)
InLoop == pc \in {"Listing", "Detail"}

Cancelled == pc' = "exited" /\ exitCode' = <<0>> /\ error' = "none"

C2_SelectionOnly ==
    [][InLoop =>
          \/ pc = "Listing" /\ pc' = "Detail" /\ selectedIp' # NoSelection
          \/ pc = "Detail" /\ pc' = "Listing"
          \/ Cancelled]_vars

(***************************************************************************)
(* C2 as the code has it.  Listing is left for Detail whenever the         *)
(* selection prompt resolves: the processes of the selected entry have     *)
(* been printed, or nothing if the prompt resolved without an entry.       *)
(* Detail is left for Listing, either is left for the exit with code 0,    *)
(* and nothing else happens: the loop has no other way out.                *)
(***************************************************************************)
C2_LoopTransitions ==
    [][InLoop =>
          \/ /\ pc = "Listing"
             /\ pc' = "Detail"
             /\ IF selectedIp' = NoSelection
                THEN shown' = NothingShown
                ELSE /\ \E i \in 1..Len(choices) : choices[i].value = selectedIp'
                     /\ shown' = processMap[selectedIp']
          \/ pc = "Detail" /\ pc' = "Listing"
          \/ Cancelled]_vars

\* the acknowledgment prompt reached without a selection, after a Detail
\* view of an entry is not needed: the list may be empty
C2_Witness ==
    /\ pc = "Detail"
    /\ selectedIp = NoSelection
    /\ shown = NothingShown
    /\ choices # <<>>

(***************************************************************************)
(* C7.  At most one remote command is in flight; the commands are started  *)
(* in the order ss -tan, cmdline snapshot, ss -tlnp, ss -tanp, each after  *)
(* the one before returned; the fan-out over the addresses starts none.    *)
(***************************************************************************)
CommandOrder == <<SsTan, ProcCmdlines, SsTlnp, SsTanp>>

IsPrefix(s, t) == Len(s) <= Len(t) /\ SubSeq(t, 1, Len(s)) = s

C7_Serialized ==
    /\ Cardinality(sshInFlight) <= 1
    /\ IsPrefix(sshLog, CommandOrder)
    /\ \A cmd \in sshInFlight : sshLog # <<>> /\ sshLog[Len(sshLog)] = cmd
    /\ pc \in {"choices", "Listing", "Detail"} =>
           sshInFlight = {} /\ sshLog = CommandOrder

\* the picker is up after a fan-out over several addresses that found
\* processes
C7_Witness ==
    /\ pc = "Listing"
    /\ Len(connections) >= 2
    /\ \E a \in DOMAIN processMap : processMap[a] # <<>>
    /\ sshLog = CommandOrder

(***************************************************************************)
(* C8.  Whatever the order of the answers, an address is looked up at most *)
(* once, its cache entry is written at most once and keeps the value       *)
(* written, and a lookup that failed left the empty string in the cache.   *)
(***************************************************************************)
LookupsOf(a) ==
    {i \in 1..Len(ipCalls) : ipCalls[i].ip = a /\ ipCalls[i].status # "returned"}

WritesOf(a) == {k \in 1..Len(cacheWrites) : cacheWrites[k].ip = a}

C8_CacheWriteOnce ==
    /\ \A i \in 1..Len(ipCalls) : Cardinality(LookupsOf(ipCalls[i].ip)) <= 1
    /\ \A k \in 1..Len(cacheWrites) : Cardinality(WritesOf(cacheWrites[k].ip)) <= 1
    /\ \A a \in DOMAIN ipInfoCache :
           \E k \in WritesOf(a) : cacheWrites[k].location = ipInfoCache[a]
    /\ \A i \in 1..Len(ipCalls) :
           /\ ipCalls[i].status = "failed" =>
                  ipCalls[i].ip \in DOMAIN ipInfoCache
                      /\ ipInfoCache[ipCalls[i].ip] = ""
           /\ ipCalls[i].status = "ok" => ipCalls[i].ip \in DOMAIN ipInfoCache

\* two addresses were looked up at once: one lookup failed, the other found a
\* location, and the picker is up
C8_Witness ==
    /\ pc = "Listing"
    /\ \E i, j \in 1..Len(ipCalls) :
           /\ ipCalls[i].status = "failed"
           /\ ipInfoCache[ipCalls[i].ip] = ""
           /\ ipCalls[j].status = "ok"
           /\ ipInfoCache[ipCalls[j].ip] # ""

(***************************************************************************)
(* C9.  main() never rejects because a remote command of the process       *)
(* lookup (the cmdline snapshot, ss -tlnp, ss -tanp) has failed.           *)
(***************************************************************************)
C9_LookupFailuresAbsorbed == error \notin {ProcCmdlines, SsTlnp, SsTanp}

(***************************************************************************)
(* C11.  A key of the connections is handled as a listening port -- shown  *)
(* as LISTEN, passed over by getIPInfo without a lookup, and looked up     *)
(* among the listening sockets by getAllProcessInfo -- exactly when the    *)
(* parser made it while reading a LISTEN line; the key of any other line   *)
(* is handled as an address.                                               *)
(***************************************************************************)
FromListenLine(text, k) ==
    \E l \in CountedLines(text) :
        /\ StateOf(l) = "LISTEN"
        /\ k = ":" \o LocalPortTextOf(l) \/ k = PeerOf(l)

C11_KindsNotConflated ==
    InLoop =>
        \A i \in 1..Len(connections) :
            LET k      == connections[i].foreignAddress
                listen == FromListenLine(result, k)
            IN  /\ choices[i].direction = "LISTEN" <=> listen
                /\ ipinfoKey # "" => (ipCalls[i].status = "returned" <=> listen)
                /\ processMap[k] =
                       IF listen
                       THEN ListenInfo(<<>>, SplitOn(listenResult, "\n"),
                                       SubstringFrom(k, 1), cmdlineMap)
                       ELSE EstablishedInfo(establishedResult, k, cmdlineMap)

(***************************************************************************)
(* EnrichSpec: getIPInfo called for any addresses at once, with or without *)
(* a token, on an empty cache or one that has an entry, index.ts 43-74.    *)
(***************************************************************************)
MaxCalls == 2

EnrichAddresses == {"1.2.3.4", "5.6.7.8", ":22", "::ffff:1.2.3.4"}

EnrichCaches == {EmptyMap, [a \in {"1.2.3.4"} |-> "US (Ashburn)"]}

EnrichInit ==
    /\ pc = "call"
    /\ argc = 1
    /\ ipinfoKey \in {"", "token"}
    /\ ipInfoCache \in EnrichCaches
    /\ \E as \in SeqsUpTo(EnrichAddresses, MaxCalls) :
           connections = [i \in 1..Len(as) |->
                             [foreignAddress |-> as[i], isOutgoing |-> TRUE]]
    /\ ipCalls = <<>>
    /\ cacheWrites = <<>>
    /\ domains = <<>>
    /\ exitCode = <<>>
    /\ error = "none"
    /\ sshInFlight = {}
    /\ sshLog = <<>>
    /\ result = ""
    /\ connectionsSimple = <<>>
    /\ cmdlineMap = EmptyMap
    /\ listenResult = ""
    /\ establishedResult = ""
    /\ processMap = EmptyMap
    /\ choices = <<>>
    /\ selectedIp = NoSelection
    /\ shown = NothingShown

\* connections.map(conn => getIPInfo(conn.foreignAddress)) (191): every call
\* runs to its first await before the next is made
CallAll ==
    /\ pc = "call"
    /\ ipCalls' = [i \in 1..Len(connections) |->
                      CallStarted(connections[i], ipInfoCache)]
    /\ pc' = "enrich"
    /\ UNCHANGED <<domains, loadVars, exitVars, sshVars, textVars, ipInfoCache,
                   cacheWrites, lookupVars, loopVars>>

EnrichNext == CallAll \/ FetchSettled \/ Enriched

EnrichSpec == EnrichInit /\ [][EnrichNext]_vars

(***************************************************************************)
(* C12.  getIPInfo never rejects: a call that is over has resolved to a    *)
(* string, whatever the lookup answered, so the Promise.all over the calls *)
(* resolves; without a token every call has returned "" at once, with no   *)
(* lookup and no write to the cache.                                       *)
(***************************************************************************)
ResolvedStatuses == {"returned", "ok", "failed"}

C12_NeverRejects ==
    /\ \A i \in 1..Len(ipCalls) :
           /\ ipCalls[i].status \in ResolvedStatuses \cup {"fetching"}
           /\ ipCalls[i].status \in ResolvedStatuses <=> ipCalls[i].value # Pending
           /\ ipCalls[i].status = "failed" => ipCalls[i].value = ""
    /\ ipinfoKey = "" =>
           /\ cacheWrites = <<>>
           /\ ipInfoCache \in EnrichCaches
           /\ \A i \in 1..Len(ipCalls) :
                  ipCalls[i].status = "returned" /\ ipCalls[i].value = ""
    /\ pc = "cmdlines" =>
           /\ Len(ipCalls) = Len(connections)
           /\ \A i \in 1..Len(ipCalls) : ipCalls[i].status \in ResolvedStatuses

\* without a token: the calls for a cached address and for another one are
\* over and the run has gone on
C12_Witness ==
    /\ pc = "cmdlines"
    /\ ipinfoKey = ""
    /\ "1.2.3.4" \in DOMAIN ipInfoCache
    /\ \E i, j \in 1..Len(ipCalls) :
           ipCalls[i].ip = "1.2.3.4" /\ ipCalls[j].ip = "5.6.7.8"

(***************************************************************************)
(* C13.  Whatever the picker can resolve to, other than nothing, is a key  *)
(* of the process map, with a list that may be empty; the Detail step has  *)
(* printed that list and main never rejects for a missing entry.           *)
(***************************************************************************)
C13_SelectableHaveEntries ==
    /\ error # "TypeError"
    /\ InLoop =>
           /\ \A v \in Selectable \ {NoSelection} : v \in DOMAIN processMap
           /\ \A i \in 1..Len(connections) :
                  connections[i].foreignAddress \in Selectable
    /\ pc = "Detail" /\ selectedIp # NoSelection =>
           selectedIp \in DOMAIN processMap /\ shown = processMap[selectedIp]

\* an address no process was found for has been selected and its empty
\* list printed, next to an address that has a process
C13_Witness ==
    /\ pc = "Detail"
    /\ selectedIp # NoSelection
    /\ shown = <<>>
    /\ \E a \in DOMAIN processMap : processMap[a] # <<>>

(***************************************************************************)
(* C14.  From the first Listing on, no step changes the listing text, the  *)
(* connections, the choices, the process map or the location cache, and    *)
(* none starts a remote command or a lookup: every Listing shows the       *)
(* choices built before the loop.                                          *)
(***************************************************************************)
C14_LoopFrame ==
    [][InLoop =>
          UNCHANGED <<result, connections, choices, processMap, cmdlineMap,
                      listenResult, establishedResult, ipInfoCache, cacheWrites,
                      ipCalls, sshInFlight, sshLog>>]_vars

\* back in Listing after a Detail view of an entry, with locations cached
\* and processes found before the loop
C14_Witness ==
    /\ pc = "Listing"
    /\ selectedIp # NoSelection
    /\ Len(choices) >= 2
    /\ DOMAIN ipInfoCache # {}
    /\ \E a \in DOMAIN processMap : processMap[a] # <<>>
    /\ sshInFlight = {}

====
